---------------------------- MODULE Spec2Model ----------------------------
(***************************************************************************)
(* Upload scheduling engine of the GitHub folder uploader:                 *)
(*   - UploadQueue (services/uploadQueue.js): a PQueue with a concurrency  *)
(*     bound and a per-job timeout, the job body (existence read, then     *)
(*     create-or-update write), the global counters and the rate-limit     *)
(*     pause/resume timer;                                                 *)
(*   - the upload routes (routes/upload.js): /start, /execute, /status,    *)
(*     /cancel over the in-memory session map;                             *)
(*   - the path validator (utils/pathSanitizer.js).                        *)
(* A path is a sequence of one-character strings.                          *)
(***************************************************************************)
EXTENDS Integers, Sequences, FiniteSets, TLC

(***************************** bounds **************************************)
\* concurrency of the PQueue (UPLOAD_CONCURRENCY)
Concurrency == 2
\* upload sessions created over a run
MaxSessions == 2
\* jobs submitted to the queue over a run
MaxJobs == 3
\* /cancel requests accepted over a run
MaxCancels == 1
\* PQueue timeouts elapsing over a run
MaxTimeouts == 1
\* progress streams opened over a run
MaxSubscribers == 2
\* keep-alive pings written to one progress stream
MaxPings == 1
\* length of the paths enumerated for the path sanitizer
MaxInputLength == 4
\* POST /verify requests of a run
MaxVerifies == 3

(***************************** paths ***************************************)
NulByte == "U+0000"

WhiteSpace == {" ", "\t", "\n", "\r"}

InvalidChars == {"<", ">", ":", "\"", "|", "?", "*"}

MaxPathLength == 500

LowerLetters == <<"a", "b", "c", "d", "e", "f", "g", "h", "i", "j", "k", "l", "m", "n", "o", "p", "q", "r", "s", "t", "u", "v", "w", "x", "y", "z">>

UpperLetters == <<"A", "B", "C", "D", "E", "F", "G", "H", "I", "J", "K", "L", "M", "N", "O", "P", "Q", "R", "S", "T", "U", "V", "W", "X", "Y", "Z">>

IndexIn(letters, c) == CHOOSE i \in 1..Len(letters) : letters[i] = c

IsIn(letters, c) == \E i \in 1..Len(letters) : letters[i] = c

toUpperCase(p) ==
    [i \in 1..Len(p) |->
        IF IsIn(LowerLetters, p[i]) THEN UpperLetters[IndexIn(LowerLetters, p[i])] ELSE p[i]]

toLowerCase(p) ==
    [i \in 1..Len(p) |->
        IF IsIn(UpperLetters, p[i]) THEN LowerLetters[IndexIn(UpperLetters, p[i])] ELSE p[i]]

\* the regex tail (\/|$) at position i of p
SepOrEnd(p, i) == i > Len(p) \/ p[i] = "/"

\* p holds the literal s at position i
MatchAt(p, i, s) == i + Len(s) - 1 <= Len(p) /\ SubSeq(p, i, i + Len(s) - 1) = s

\* index of the last "/" of p, 0 when there is none
LastSlash(p) ==
    LET S == {i \in 1..Len(p) : p[i] = "/"}
    IN IF S = {} THEN 0 ELSE CHOOSE i \in S : \A k \in S : k <= i

basename(p) == SubSeq(p, LastSlash(p) + 1, Len(p))

\* path.extname: from the last "." of the base name, "" when that dot
\* is the first character or there is none
extname(p) ==
    LET b == basename(p)
        D == {i \in 1..Len(b) : b[i] = "."}
        d == IF D = {} THEN 0 ELSE CHOOSE i \in D : \A k \in D : k <= i
    IN IF d <= 1 THEN <<>> ELSE SubSeq(b, d, Len(b))

\* .replace(/\..*$/, ''): cut from the first "."
StripFromFirstDot(b) ==
    LET D == {i \in 1..Len(b) : b[i] = "."}
    IN IF D = {} THEN b
       ELSE SubSeq(b, 1, (CHOOSE i \in D : \A k \in D : i <= k) - 1)

reservedNames ==
    { <<"C","O","N">>, <<"P","R","N">>, <<"A","U","X">>, <<"N","U","L">> }
    \cup { <<"C","O","M", d>> : d \in {"1","2","3","4","5","6","7","8","9"} }
    \cup { <<"L","P","T", d>> : d \in {"1","2","3","4","5","6","7","8","9"} }

blockedExtensions ==
    { <<".","e","x","e">>, <<".","b","a","t">>, <<".","c","m","d">>,
      <<".","s","h">>, <<".","b","i","n">>, <<".","d","l","l">>,
      <<".","s","o">>, <<".","d","y","l","i","b">>, <<".","s","y","s">>,
      <<".","p","h","p">>, <<".","p","h","p","3">>, <<".","p","h","p","4">>,
      <<".","p","h","p","5">>, <<".","p","h","t","m","l">>, <<".","p","y">>,
      <<".","p","y","c">>, <<".","p","y","o">>, <<".","p","y","w">>,
      <<".","p","l">>, <<".","p","m">>, <<".","t">>,
      <<".","c","g","i">>, <<".","j","s">>, <<".","j","s","e">>,
      <<".","v","b","s">>, <<".","v","b","e">>, <<".","w","s","f">>,
      <<".","j","a","r">>, <<".","w","a","r">>, <<".","e","a","r">>,
      <<".","c","l","a","s","s">> }

\* the dangerousPatterns without the three ".." patterns
dangerousPatternsWithoutTraversal(p) ==
    \/ \E i \in 1..Len(p) :
          /\ MatchAt(toLowerCase(p), i, <<".","g","i","t">>)
          /\ SepOrEnd(p, i + 4)
    \/ \E i \in 1..Len(p) : MatchAt(p, i, <<"/", "/">>)
    \/ p[1] = "/"
    \/ p[Len(p)] = "/"
    \/ \E i \in 1..Len(p) : p[i] \in InvalidChars
    \/ p[1] \in WhiteSpace
    \/ p[Len(p)] \in WhiteSpace
    \/ \E i \in 1..Len(p) : p[i] = NulByte

\* one of the dangerousPatterns of isValidPath matches p
dangerousPatterns(p) ==
    \/ \E i \in 1..Len(p) :
          /\ MatchAt(toLowerCase(p), i, <<".","g","i","t">>)
          /\ SepOrEnd(p, i + 4)
    \/ \E i \in 1..Len(p) : MatchAt(p, i, <<".", ".">>) /\ SepOrEnd(p, i + 2)
    \/ \E i \in 1..Len(p) : MatchAt(p, i, <<"/", "/">>)
    \/ p[1] = "/"
    \/ p[Len(p)] = "/"
    \/ \E i \in 1..Len(p) : p[i] \in InvalidChars
    \/ p[1] \in WhiteSpace
    \/ p[Len(p)] \in WhiteSpace
    \/ \E i \in 1..Len(p) : p[i] = NulByte

isValidPath(p) ==
    /\ p # <<>>
    /\ Len(p) <= MaxPathLength
    /\ ~dangerousPatterns(p)
    /\ StripFromFirstDot(toUpperCase(basename(p))) \notin reservedNames
    /\ toLowerCase(extname(p)) \notin blockedExtensions

\* String.prototype.replace(/[set]/g, '')
RemoveAll(p, set) == SelectSeq(p, LAMBDA c : c \notin set)

\* .replace(/\\/g, '/')
NormalizeSeparators(p) == [i \in 1..Len(p) |-> IF p[i] = "\\" THEN "/" ELSE p[i]]

\* .replace(/^c+|c+$/g, '') for the characters c of set; trim() with WhiteSpace
TrimAll(p, set) ==
    LET K == {i \in 1..Len(p) : p[i] \notin set}
    IN IF K = {} THEN <<>>
       ELSE SubSeq(p, CHOOSE i \in K : \A k \in K : i <= k,
                      CHOOSE i \in K : \A k \in K : k <= i)

\* String.prototype.split('/')
RECURSIVE split(_)
split(p) ==
    LET S == {i \in 1..Len(p) : p[i] = "/"}
    IN IF S = {} THEN <<p>>
       ELSE LET i == CHOOSE i \in S : \A k \in S : i <= k
            IN <<SubSeq(p, 1, i - 1)>> \o split(SubSeq(p, i + 1, Len(p)))

\* .replace(/\.{2,}/g, '.')
CollapseDots(p) ==
    LET kept == SelectSeq([i \in 1..Len(p) |-> i],
                          LAMBDA i : ~(p[i] = "." /\ i > 1 /\ p[i - 1] = "."))
    IN [k \in 1..Len(kept) |-> p[kept[k]]]

cleanPart(part) == CollapseDots(TrimAll(RemoveAll(part, InvalidChars), WhiteSpace))

\* the loop of sanitizePath over parts, validParts so far
RECURSIVE validParts(_, _)
validParts(parts, acc) ==
    IF parts = <<>> THEN acc
    ELSE LET part == Head(parts)
         IN IF part = <<>> \/ part = <<".">> THEN validParts(Tail(parts), acc)
            ELSE IF part = <<".", ".">>
            THEN validParts(Tail(parts),
                            IF Len(acc) > 0 THEN SubSeq(acc, 1, Len(acc) - 1) ELSE acc)
            ELSE validParts(Tail(parts),
                            IF Len(cleanPart(part)) > 0 THEN Append(acc, cleanPart(part))
                            ELSE acc)

\* Array.prototype.join('/')
RECURSIVE join(_)
join(parts) ==
    IF parts = <<>> THEN <<>>
    ELSE IF Len(parts) = 1 THEN parts[1]
    ELSE parts[1] \o <<"/">> \o join(Tail(parts))

sanitizePath(filePath) ==
    IF filePath = <<>> THEN <<>>
    ELSE join(validParts(
            split(TrimAll(TrimAll(NormalizeSeparators(RemoveAll(filePath, {NulByte})),
                                  WhiteSpace),
                          {"/"})),
            <<>>))

(***************************** inputs **************************************)
\* characters of the enumerated paths
PathAlphabet == {"a", ".", "/", "\\", NulByte, " ", "<"}

PathEtcPasswd == <<".",".","/",".",".","/","e","t","c","/","p","a","s","s","w","d">>

PathSrcApp == <<"s","r","c","/","/","a","p","p",".","j","s">>

PathABC == <<"a","/","b","/",".",".","/","c">>

\* paths handed to isValidPath and sanitizePath: every string over PathAlphabet
\* up to MaxInputLength, the examples of the documentation, device names, and
\* paths of MaxPathLength and one more
PathInputs ==
    UNION { [1..n -> PathAlphabet] : n \in 0..MaxInputLength }
    \cup { PathEtcPasswd, PathSrcApp, PathABC,
           <<"a","/",".",".","/",".",".","/","b">>,
           <<"C","O","N">>, <<"c","o","n",".","t","x","t">>,
           <<"a","/","L","p","t","1",".","t","a","r",".","g","z">>,
           <<"C","O","N","/","x">>, <<"a","/","b",".","t","x","t">>,
           [i \in 1..MaxPathLength |-> "a"],
           [i \in 1..(MaxPathLength + 1) |-> "a"] }

\* GitHub App installations (req.session.installationId): the one that
\* creates the sessions, and those that send the later requests
Installations == {1}

Requesters == {1, 2}

\* file lists handed to /start by the extraction (result.files), in order
Archives ==
    { << <<"a">> >>,
      << <<"a",".","t","x","t">>, <<"b","/","c",".","t","x","t">>,
         <<"b","a","d","/",".",".","/",".",".","/","x",".","t","x","t">> >> }

\* file lists of an upload that /start refuses: nothing extracted, and one
\* entry under a .git directory
RejectedArchives ==
    { <<>>, << <<".","g","i","t","/","x">> >> }

\* validateFileList(files, maxFiles = 1000, maxTotalSize = 100 * 1024 * 1024)
maxFiles == 1000

maxTotalSize == 100 * 1024 * 1024

\* a file one byte over maxTotalSize; every other file of the model has 1 byte
BigFile == <<"b","i","g">>

\* file.size (content.length of the extracted file)
size(file) == IF file = BigFile THEN maxTotalSize + 1 ELSE 1

\* a file list over a limit of validateFileList: one file, too large
LargeArchives == { <<BigFile>> }

\* outcomes of the existence read (axios.get) and of the write (axios.put);
\* the files are new to the repository unless said otherwise
GetOutcomes == {"notFound", "rateLimited", "error"}

\* the same with files that exist in the repository: the read answers 2xx
GetOutcomesExisting == GetOutcomes \cup {"ok"}

PutOutcomes == {"ok", "rateLimited", "error"}

\* the same with responses whose x-ratelimit-remaining is low: a success and
\* a failure other than quota exhaustion
GetOutcomesQuota == GetOutcomes \cup {"errorLow"}

PutOutcomesQuota == PutOutcomes \cup {"okLow", "errorLow"}

\* a 2xx response
ok(r) == r \in {"ok", "okLow"}

\* parseInt(headers['x-ratelimit-remaining']) of the response r: 0 with the
\* 403 of quota exhaustion, else a value on either side of the threshold
remaining(r) ==
    CASE r = "rateLimited" -> 0
      [] r \in {"okLow", "errorLow"} -> 9
      [] OTHER -> 10

\* if (remaining < 10)
WarningThreshold == 10

\* browser sessions (cookies) of the install routes
BrowserSessions == {1, 2}

\* the values Date.now().toString(36) + Math.random().toString(36).substr(2)
\* takes in the /start calls of a run, each taken once
StateTokens == {"t1", "t2"}

\* the state of a /verify body: absent, null, or a string
SuppliedStates == {"undefined", "null"} \cup StateTokens

(***************************** state ***************************************)
VARIABLES
    sessions,       \* req.app.locals.sessions: sessionId -> session record
    cleaned,        \* cleanupTemp invocations per staging directory (tempId)
    cancels,        \* /cancel requests accepted per session
    calls,          \* one record per /execute call: its Promise.allSettled continuation
    jobs,           \* every job submitted by addUploadJob, by job id
    queue,          \* PQueue: job ids waiting, highest priority first
    pendingCount,   \* PQueue: jobs holding a concurrency slot
    isPaused,       \* PQueue: paused flag
    activeUploads,  \* UploadQueue.activeUploads (keys)
    stats,          \* UploadQueue.stats
    timers,         \* resume timers scheduled by handleRateLimitExceeded, not yet fired
    emitted,        \* events emitted on the shared UploadQueue, counted by kind
    startOrder,     \* job ids in the order their execution began
    subscribers,    \* one record per setupSSE call: its UploadQueue, its res stream
    lastStart,      \* the last POST /start: what it carried and how it was answered
    pathCheck,      \* a path with what isValidPath and sanitizePath returned for it
    refusal,        \* the last /execute, /status or /cancel request answered 403 or 404
    installSessions, \* req.session of the install routes, by browser session
    verifies        \* the POST /verify requests: what they carried, how they were answered

vars == <<sessions, cleaned, cancels, calls, jobs, queue, pendingCount, isPaused,
          activeUploads, stats, timers, emitted, startOrder, subscribers, lastStart,
          pathCheck, refusal, installSessions, verifies>>

queueVars == <<jobs, queue, pendingCount, isPaused, activeUploads, stats, startOrder>>

SessionIds == 1..Len(sessions)

RECURSIVE SumSeq(_)
SumSeq(seq) == IF seq = <<>> THEN 0 ELSE Head(seq) + SumSeq(Tail(seq))

JobIds == 1..Len(jobs)

Running == {j \in JobIds : jobs[j].st \in {"get", "put"}}

\* a path that neither function has been called with yet
PathCheck(filePath) ==
    [filePath |-> filePath, tested |-> FALSE, isValid |-> FALSE,
     sanitizedYet |-> FALSE, sanitized |-> <<>>]

\* the server after construction
InitServer ==
    /\ sessions = <<>>
    /\ cleaned = <<>>
    /\ cancels = <<>>
    /\ calls = <<>>
    /\ jobs = <<>>
    /\ queue = <<>>
    /\ pendingCount = 0
    /\ isPaused = FALSE
    /\ activeUploads = {}
    /\ stats = [totalJobs |-> 0, completedJobs |-> 0, failedJobs |-> 0, rateLimitHits |-> 0]
    /\ timers = 0
    /\ emitted = [rateLimitWarning |-> 0, rateLimitExceeded |-> 0, rateLimitResumed |-> 0]
    /\ startOrder = <<>>
    /\ subscribers = <<>>
    /\ lastStart = [owner |-> FALSE, repo |-> FALSE, file |-> <<>>, status |-> 0, error |-> ""]
    /\ refusal = [route |-> "", sessionId |-> 0, inst |-> 0, status |-> 0]
    /\ installSessions = [b \in BrowserSessions |->
                            [installState |-> "undefined", installed |-> FALSE, issued |-> {}]]
    /\ verifies = <<>>

Init ==
    /\ InitServer
    /\ pathCheck = PathCheck(<<>>)

\* the path functions are about to be called with one of PathInputs
InitPaths ==
    /\ InitServer
    /\ pathCheck \in {PathCheck(filePath) : filePath \in PathInputs}

(***************************** UploadQueue *********************************)
\* this.queue is a PQueue of the p-queue package ({concurrency, timeout: 300000,
\* throwOnTimeout: false}). Its documented behaviour, as used by the code:
\*   - add(fn, {priority}) enqueues and dispatches at once when a slot is free;
\*     operations with greater priority are scheduled first, equal priorities
\*     run in the order of their addition;
\*   - at most `concurrency` operations hold a slot; a slot is released when the
\*     operation settles or when its timeout elapses, whichever comes first;
\*   - with throwOnTimeout false a timeout resolves the promise of add with
\*     undefined; the function it ran is not interrupted;
\*   - pause() stops dispatching, start() resumes it and fills the free slots.
\* the queue object as one value, so that a handler's calls compose
Q == [jobs |-> jobs, queue |-> queue, pendingCount |-> pendingCount,
      isPaused |-> isPaused, activeUploads |-> activeUploads, stats |-> stats,
      startOrder |-> startOrder]

SetQ(q) ==
    /\ jobs' = q.jobs
    /\ queue' = q.queue
    /\ pendingCount' = q.pendingCount
    /\ isPaused' = q.isPaused
    /\ activeUploads' = q.activeUploads
    /\ stats' = q.stats
    /\ startOrder' = q.startOrder

\* enqueue that puts a job ahead of the waiting jobs of its own priority
enqueueAhead(q, j) ==
    LET k == Cardinality({i \in 1..Len(q.queue) :
                            q.jobs[q.queue[i]].priority > q.jobs[j].priority})
    IN SubSeq(q.queue, 1, k) \o <<j>> \o SubSeq(q.queue, k + 1, Len(q.queue))

\* PQueue enqueue: behind every waiting job of greater or equal priority
enqueue(q, j) ==
    LET k == Cardinality({i \in 1..Len(q.queue) :
                            q.jobs[q.queue[i]].priority >= q.jobs[j].priority})
    IN SubSeq(q.queue, 1, k) \o <<j>> \o SubSeq(q.queue, k + 1, Len(q.queue))

\* _tryToStartAnother that does not look at the pause flag
canStartAnotherPaused(q) ==
    q.queue # <<>> /\ q.pendingCount < Concurrency

\* PQueue _tryToStartAnother: dequeue the head and run it when not paused and
\* a slot is free; the job body runs to its first await (activeUploads.set,
\* emit jobStart, axios.get issued)
canStartAnother(q) ==
    q.queue # <<>> /\ ~q.isPaused /\ q.pendingCount < Concurrency

\* a dispatch whose job body emits no jobStart
tryToStartAnotherSilently(q) ==
    IF canStartAnother(q)
    THEN LET j == Head(q.queue)
         IN [q EXCEPT !.queue = Tail(@),
                      !.pendingCount = @ + 1,
                      !.jobs[j].st = "get",
                      !.jobs[j].slot = TRUE,
                      !.activeUploads = @ \cup {j}]
    ELSE q

tryToStartAnother(q) ==
    IF canStartAnother(q)
    THEN LET j == Head(q.queue)
         IN [q EXCEPT !.queue = Tail(@),
                      !.pendingCount = @ + 1,
                      !.jobs[j].st = "get",
                      !.jobs[j].slot = TRUE,
                      !.activeUploads = @ \cup {j},
                      !.startOrder = Append(@, j)]
    ELSE q

\* PQueue _processQueue: while (_tryToStartAnother()) {}
RECURSIVE processQueue(_)
processQueue(q) == IF canStartAnother(q) THEN processQueue(tryToStartAnother(q)) ELSE q

\* PQueue _next: release the slot and try to start another
next(q) == tryToStartAnother([q EXCEPT !.pendingCount = @ - 1])

\* addUploadJob: totalJobs++, queue.add(job, {priority})
addUploadJob(q, sessionId, call, priority) ==
    LET j  == Len(q.jobs) + 1
        q1 == [q EXCEPT !.jobs = Append(@, [sessionId |-> sessionId, call |-> call,
                                            priority |-> priority, st |-> "queued",
                                            promise |-> "pending", slot |-> FALSE,
                                            timedOut |-> FALSE, outcome |-> "none",
                                            read |-> "none", sha |-> FALSE]),
                        !.stats.totalJobs = @ + 1]
    IN tryToStartAnother([q1 EXCEPT !.queue = enqueue(q1, j)])

\* the promise of queue.add settles with the job's outcome, unless the
\* PQueue timeout settled it already; then the slot is released (_next)
settle(q, j, outcome) ==
    IF q.jobs[j].slot
    THEN next([q EXCEPT !.jobs[j].promise = outcome, !.jobs[j].slot = FALSE])
    ELSE q

\* (read and sha of a job are existingResponse and requestData.sha, locals of
\* the job body: they hold a value while the job runs)
\* job body, success path after the write: completedJobs++, emit jobComplete,
\* finally activeUploads.delete
jobComplete(q, j) ==
    settle([q EXCEPT !.stats.completedJobs = @ + 1,
                     !.jobs[j].st = "complete",
                     !.jobs[j].read = "none",
                     !.jobs[j].sha = FALSE,
                     !.activeUploads = @ \ {j}], j, "fulfilled")

\* a catch that runs the job body again: the existence read is issued anew
jobErrorRetrying(q, j, rateLimited) ==
    [q EXCEPT !.stats.rateLimitHits = IF rateLimited THEN @ + 1 ELSE @,
              !.isPaused = IF rateLimited THEN TRUE ELSE @,
              !.jobs[j].st = "get",
              !.jobs[j].outcome = "none"]

\* a catch that pauses the queue and counts an exhaustion on every failure
jobErrorAlwaysPausing(q, j, rateLimited) ==
    settle([q EXCEPT !.stats.failedJobs = @ + 1,
                     !.stats.rateLimitHits = @ + 1,
                     !.isPaused = TRUE,
                     !.jobs[j].st = "error",
                     !.jobs[j].read = "none",
                     !.jobs[j].sha = FALSE,
                     !.activeUploads = @ \ {j}], j, "rejected")

\* job body, catch: failedJobs++, on 403 with remaining 0 rateLimitHits++ and
\* queue.pause() (handleRateLimitExceeded), emit jobError, rethrow,
\* finally activeUploads.delete
jobError(q, j, rateLimited) ==
    settle([q EXCEPT !.stats.failedJobs = @ + 1,
                     !.stats.rateLimitHits = IF rateLimited THEN @ + 1 ELSE @,
                     !.isPaused = IF rateLimited THEN TRUE ELSE @,
                     !.jobs[j].st = "error",
                     !.jobs[j].read = "none",
                     !.jobs[j].sha = FALSE,
                     !.activeUploads = @ \ {j}], j, "rejected")

\* checkRateLimits(response.headers), called after a successful write only
checkRateLimits(r) ==
    emitted' = IF remaining(r) < WarningThreshold
               THEN [emitted EXCEPT !.rateLimitWarning = @ + 1]
               ELSE emitted

\* handleRateLimitExceeded that pauses the queue without setTimeout
handleRateLimitExceededNoTimer(rateLimited) ==
    IF rateLimited
    THEN /\ emitted' = [emitted EXCEPT !.rateLimitExceeded = @ + 1]
         /\ UNCHANGED timers
    ELSE UNCHANGED <<emitted, timers>>

\* handleRateLimitExceeded besides queue.pause(): emit rateLimitExceeded and
\* setTimeout of the resume callback
handleRateLimitExceeded(rateLimited) ==
    IF rateLimited
    THEN /\ emitted' = [emitted EXCEPT !.rateLimitExceeded = @ + 1]
         /\ timers' = timers + 1
    ELSE UNCHANGED <<emitted, timers>>

(***************************** progress streams ****************************)
\* export default new UploadQueue(): the instance the routes submit jobs to.
\* The instance of subscriber i, made by its setupSSE call, is numbered i.
SharedQueue == 0

JobEvents == {"jobStart", "jobComplete", "jobError"}

RateLimitEvents == {"rateLimitWarning", "rateLimitExceeded", "rateLimitResumed"}

\* an event with the part of its payload the handlers read
Event(event, sessionId, jobId) == [event |-> event, sessionId |-> sessionId, jobId |-> jobId]

\* eventHandlers without the test of data.sessionId
eventHandlersUnfiltered(sub, e) == <<e>>

\* eventHandlers[e.event](data) of a subscriber: what it writes to res
eventHandlers(sub, e) ==
    IF e.event \in JobEvents
    THEN IF e.sessionId = sub.sessionId THEN <<e>> ELSE <<>>
    ELSE <<e>>

RECURSIVE writes(_, _)
writes(sub, events) ==
    IF events = <<>> THEN <<>>
    ELSE (IF Head(events).event \in sub.handlers
          THEN eventHandlers(sub, Head(events)) ELSE <<>>)
         \o writes(sub, Tail(events))

\* uploadQueue.emit, for the events of one step in order: EventEmitter calls
\* the handlers registered on that instance, synchronously
emit(uploadQueue, events) ==
    IF subscribers = <<>> THEN subscribers
    ELSE [i \in 1..Len(subscribers) |->
            IF subscribers[i].handlers # {} /\ subscribers[i].uploadQueue = uploadQueue
            THEN [subscribers[i] EXCEPT !.written = @ \o writes(subscribers[i], events)]
            ELSE subscribers[i]]

\* the events the shared queue emits in a step, in the order of the code:
\* rateLimitWarning or rateLimitExceeded, jobComplete or jobError of the job
\* that ended, jobStart of the jobs dispatched, rateLimitResumed
stepEvents ==
    LET ended  == {j \in JobIds : jobs[j].st \in {"get", "put"} /\
                                   jobs'[j].st \in {"complete", "error"}}
        starts == Len(startOrder') - Len(startOrder)
    IN (IF emitted'.rateLimitWarning > emitted.rateLimitWarning
        THEN <<Event("rateLimitWarning", 0, 0)>> ELSE <<>>)
       \o (IF emitted'.rateLimitExceeded > emitted.rateLimitExceeded
           THEN <<Event("rateLimitExceeded", 0, 0)>> ELSE <<>>)
       \o (IF ended = {} THEN <<>>
           ELSE LET j == CHOOSE j \in ended : TRUE
                IN <<Event(IF jobs'[j].st = "complete" THEN "jobComplete" ELSE "jobError",
                           jobs[j].sessionId, j)>>)
       \o (IF starts = 0 THEN <<>>
           ELSE [k \in 1..starts |->
                    Event("jobStart", jobs'[startOrder'[Len(startOrder) + k]].sessionId,
                          startOrder'[Len(startOrder) + k])])
       \o (IF emitted'.rateLimitResumed > emitted.rateLimitResumed
           THEN <<Event("rateLimitResumed", 0, 0)>> ELSE <<>>)

\* this.emit(...) of the shared queue in a step of its jobs
deliver == subscribers' = emit(SharedQueue, stepEvents)

\* setupSSE that first writes the jobStart of the jobs of the batch begun so far
setupSSEReplaying(sessionId) ==
    /\ Len(subscribers) < MaxSubscribers
    /\ subscribers' = Append(subscribers,
            [sessionId |-> sessionId,
             uploadQueue |-> Len(subscribers) + 1,
             handlers |-> JobEvents \cup RateLimitEvents,
             keepAlive |-> TRUE,
             ended |-> FALSE,
             written |-> <<Event("connected", sessionId, 0)>> \o
                         [k \in 1..Len(SelectSeq(startOrder,
                                           LAMBDA j : jobs[j].sessionId = sessionId)) |->
                            Event("jobStart", sessionId,
                                  SelectSeq(startOrder,
                                            LAMBDA j : jobs[j].sessionId = sessionId)[k])]])
    /\ UNCHANGED <<sessions, cleaned, cancels, calls, queueVars, timers, emitted, lastStart, pathCheck, refusal, installSessions, verifies>>

\* GET /api/upload-progress/:sessionId (setupSSE): write the connected event,
\* make a new UploadQueue, register the six handlers on it, start the
\* keep-alive interval
setupSSE(sessionId) ==
    /\ Len(subscribers) < MaxSubscribers
    /\ subscribers' = Append(subscribers,
            [sessionId |-> sessionId,
             uploadQueue |-> Len(subscribers) + 1,
             handlers |-> JobEvents \cup RateLimitEvents,
             keepAlive |-> TRUE,
             ended |-> FALSE,
             written |-> <<Event("connected", sessionId, 0)>>])
    /\ UNCHANGED <<sessions, cleaned, cancels, calls, queueVars, timers, emitted, lastStart, pathCheck, refusal, installSessions, verifies>>

\* res.write(`: ping\n\n`), a comment line of the stream
PingLine == Event(": ping", 0, 0)

\* the keepAlive interval of subscriber i fires
ping(i) ==
    /\ i \in 1..Len(subscribers)
    /\ subscribers[i].keepAlive
    /\ Cardinality({k \in 1..Len(subscribers[i].written) :
                        subscribers[i].written[k] = PingLine}) < MaxPings
    /\ subscribers' = [subscribers EXCEPT ![i].written = Append(@, PingLine)]
    /\ UNCHANGED <<sessions, cleaned, cancels, calls, queueVars, timers, emitted, lastStart, pathCheck, refusal, installSessions, verifies>>

\* req.on('close') that ends the response and leaves the handlers registered
closeLeavingHandlers(i) ==
    /\ i \in 1..Len(subscribers)
    /\ ~subscribers[i].ended
    /\ subscribers' = [subscribers EXCEPT ![i].keepAlive = FALSE,
                                           ![i].ended = TRUE]
    /\ UNCHANGED <<sessions, cleaned, cancels, calls, queueVars, timers, emitted, lastStart, pathCheck, refusal, installSessions, verifies>>

\* req.on('close'): clearInterval, remove the handlers, res.end()
close(i) ==
    /\ i \in 1..Len(subscribers)
    /\ ~subscribers[i].ended
    /\ subscribers' = [subscribers EXCEPT ![i].handlers = {},
                                           ![i].keepAlive = FALSE,
                                           ![i].ended = TRUE]
    /\ UNCHANGED <<sessions, cleaned, cancels, calls, queueVars, timers, emitted, lastStart, pathCheck, refusal, installSessions, verifies>>

(***************************** upload routes *******************************)
\* Promise.all in place of Promise.allSettled: resolves only when every job fulfils
allFulfilled(js, c) == \A j \in 1..Len(js) : js[j].call = c => js[j].promise = "fulfilled"

allSettled(js, c) == \A j \in 1..Len(js) : js[j].call = c => js[j].promise # "pending"

\* calls whose Promise.allSettled(uploadPromises) resolves with the jobs js:
\* the continuation starts in the same turn and invokes cleanupTemp(session.tempId)
Resolving(js) == {c \in 1..Len(calls) : calls[c].pc = "waiting" /\ allSettled(js, c)}

runContinuations(js) ==
    /\ calls' = [c \in 1..Len(calls) |->
                    IF c \in Resolving(js) THEN [calls[c] EXCEPT !.pc = "cleanup"]
                    ELSE calls[c]]
    /\ cleaned' = [s \in 1..Len(cleaned) |->
                    cleaned[s] + Cardinality({c \in Resolving(js) : calls[c].sessionId = s})]

\* validFiles that keeps every file
validFilesAll(files) == files

\* validFiles = files.filter(file => isValidPath(file.path))
validFiles(files) == SelectSeq(files, isValidPath)

\* validFiles over the archives of the model, computed once
validFilesOf ==
    [files \in Archives \cup RejectedArchives \cup LargeArchives |-> validFiles(files)]

RECURSIVE totalSize(_)
totalSize(files) == IF files = <<>> THEN 0 ELSE size(Head(files)) + totalSize(Tail(files))

\* validateFileList of utils/fileScanner.js: TRUE when it returns, FALSE when
\* it throws. No route calls it.
validateFileList(files) ==
    /\ ~(Len(files) > maxFiles)
    /\ ~(totalSize(files) > maxTotalSize)

\* /start taking stats.total from the unfiltered file list
StartCountingAll(inst, files) ==
    /\ Len(sessions) < MaxSessions
    /\ Len(validFilesOf[files]) # 0
    /\ sessions' = Append(sessions,
            [files |-> validFilesOf[files],
             installationId |-> inst,
             status |-> "pending",
             stats |-> [total |-> Len(files), completed |-> 0, failed |-> 0]])
    /\ cleaned' = Append(cleaned, 0)
    /\ cancels' = Append(cancels, 0)
    /\ UNCHANGED <<pathCheck, refusal, installSessions, verifies>>
    /\ lastStart' = [owner |-> TRUE, repo |-> TRUE, file |-> <<files>>,
                     status |-> 200, error |-> ""]
    /\ UNCHANGED <<calls, queueVars, timers, emitted, subscribers>>

\* POST /start
Start(inst, files) ==
    /\ Len(sessions) < MaxSessions
    /\ Len(validFilesOf[files]) # 0
    /\ sessions' = Append(sessions,
            [files |-> validFilesOf[files],
             installationId |-> inst,
             status |-> "pending",
             stats |-> [total |-> Len(validFilesOf[files]), completed |-> 0, failed |-> 0]])
    /\ cleaned' = Append(cleaned, 0)
    /\ cancels' = Append(cancels, 0)
    /\ UNCHANGED <<pathCheck, refusal, installSessions, verifies>>
    /\ lastStart' = [owner |-> TRUE, repo |-> TRUE, file |-> <<files>>,
                     status |-> 200, error |-> ""]
    /\ UNCHANGED <<calls, queueVars, timers, emitted, subscribers>>

\* the error of the 400 that /start answers to a request, "" when it accepts
\* it. req.file is <<>> when no file was uploaded, else <<files>> with the
\* file list of the archive (multer's fileFilter lets only archives through)
startError(owner, repo, file) ==
    IF ~owner \/ ~repo THEN "Owner and repository name are required"
    ELSE IF file = <<>> THEN "No file provided"
    ELSE IF Len(validFilesOf[file[1]]) = 0 THEN "No valid files found in upload"
    ELSE ""

\* POST /start that stores the session before it looks at validFiles.length
StartInvalidStoring(inst, owner, repo, file) ==
    /\ startError(owner, repo, file) # ""
    /\ UNCHANGED <<pathCheck, refusal, installSessions, verifies>>
    /\ lastStart' = [owner |-> owner, repo |-> repo, file |-> file,
                     status |-> 400, error |-> startError(owner, repo, file)]
    /\ IF owner /\ repo /\ file # <<>>
       THEN /\ sessions' = Append(sessions,
                    [files |-> validFilesOf[file[1]],
                     installationId |-> inst,
                     status |-> "pending",
                     stats |-> [total |-> 0, completed |-> 0, failed |-> 0]])
            /\ cleaned' = Append(cleaned, 0)
            /\ cancels' = Append(cancels, 0)
       ELSE UNCHANGED <<sessions, cleaned, cancels>>
    /\ UNCHANGED <<calls, queueVars, timers, emitted, subscribers>>

\* POST /start, the requests answered 400: owner or repo missing, no file,
\* no valid file
StartInvalid(inst, owner, repo, file) ==
    /\ startError(owner, repo, file) # ""
    /\ UNCHANGED <<pathCheck, refusal, installSessions, verifies>>
    /\ lastStart' = [owner |-> owner, repo |-> repo, file |-> file,
                     status |-> 400, error |-> startError(owner, repo, file)]
    /\ UNCHANGED <<sessions, cleaned, cancels, calls, queueVars, timers, emitted,
                   subscribers>>

\* session.files.map((file, index) => uploadQueue.addUploadJob({..., priority: index}, ...))
RECURSIVE addFiles(_, _, _, _, _)
addFiles(q, sessionId, call, index, n) ==
    IF index = n THEN q
    ELSE addFiles(addUploadJob(q, sessionId, call, index), sessionId, call, index + 1, n)

\* POST /execute/:sessionId that does not compare the installations
ExecuteUnchecked(sessionId, inst) ==
    /\ sessionId \in SessionIds
    /\ Len(jobs) + Len(sessions[sessionId].files) <= MaxJobs
    /\ sessions' = [sessions EXCEPT ![sessionId].status = "uploading"]
    /\ calls' = Append(calls, [sessionId |-> sessionId, pc |-> "waiting"])
    /\ SetQ(addFiles(Q, sessionId, Len(calls) + 1, 0, Len(sessions[sessionId].files)))
    /\ UNCHANGED <<cleaned, cancels, timers, emitted, lastStart, pathCheck, refusal,
                   installSessions, verifies>>
    /\ deliver

\* POST /execute/:sessionId
Execute(sessionId, inst) ==
    /\ sessionId \in SessionIds
    /\ sessions[sessionId].installationId = inst
    /\ Len(jobs) + Len(sessions[sessionId].files) <= MaxJobs
    /\ sessions' = [sessions EXCEPT ![sessionId].status = "uploading"]
    /\ calls' = Append(calls, [sessionId |-> sessionId, pc |-> "waiting"])
    /\ SetQ(addFiles(Q, sessionId, Len(calls) + 1, 0, Len(sessions[sessionId].files)))
    /\ UNCHANGED <<cleaned, cancels, timers, emitted, lastStart, pathCheck, refusal, installSessions, verifies>>
    /\ deliver

\* the rest of the allSettled continuation, after await cleanupTemp
CleanupThen(c) ==
    /\ c \in 1..Len(calls)
    /\ calls[c].pc = "cleanup"
    /\ calls' = [calls EXCEPT ![c].pc = "done"]
    /\ sessions' = [sessions EXCEPT ![calls[c].sessionId].status = "completed"]
    /\ UNCHANGED <<cleaned, cancels, queueVars, timers, emitted, subscribers, lastStart, pathCheck, refusal, installSessions, verifies>>

\* POST /cancel/:sessionId
Cancel(sessionId, inst) ==
    /\ sessionId \in SessionIds
    /\ sessions[sessionId].installationId = inst
    /\ SumSeq(cancels) < MaxCancels
    /\ cancels' = [cancels EXCEPT ![sessionId] = @ + 1]
    /\ sessions' = [sessions EXCEPT ![sessionId].status = "cancelled"]
    /\ cleaned' = [cleaned EXCEPT ![sessionId] = @ + 1]
    /\ UNCHANGED <<calls, queueVars, timers, emitted, subscribers, lastStart, pathCheck, refusal, installSessions, verifies>>

\* the variables no refused request and no install route writes
uploadVars == <<sessions, cleaned, cancels, calls, queueVars, timers, emitted, subscribers,
                lastStart, pathCheck>>

\* /execute, /status and /cancel with a sessionId that sessions does not hold:
\* return res.status(404)
NotFound(route, sessionId, inst) ==
    /\ sessionId \notin SessionIds
    /\ refusal' = [route |-> route, sessionId |-> sessionId, inst |-> inst, status |-> 404]
    /\ UNCHANGED <<uploadVars, installSessions, verifies>>

\* /execute, /status and /cancel of a session of another installation
\* (session.config.installationId !== req.installationId): return res.status(403)
AccessDenied(route, sessionId, inst) ==
    /\ sessionId \in SessionIds
    /\ sessions[sessionId].installationId # inst
    /\ refusal' = [route |-> route, sessionId |-> sessionId, inst |-> inst, status |-> 403]
    /\ UNCHANGED <<uploadVars, installSessions, verifies>>

\* Math.min(progress, 100) of GET /status/:sessionId; the quotient is exact
\* for the counters a session can hold
progress(sessionStats) ==
    LET p == IF sessionStats.total > 0
             THEN ((sessionStats.completed + sessionStats.failed) * 100) \div sessionStats.total
             ELSE 0
    IN IF p < 100 THEN p ELSE 100

\* GET /status/:sessionId: the body of the response (a read, no state changes)
getStatus(sessionId) ==
    [status |-> sessions[sessionId].status,
     progress |-> progress(sessions[sessionId].stats),
     stats |-> sessions[sessionId].stats]

(***************************** job steps ***********************************)
\* the existence read of job j returns, with a catch that never rethrows:
\* the write is issued whatever the read answered
GetResponseSwallowing(j, r) ==
    /\ j \in JobIds
    /\ jobs[j].st = "get"
    /\ LET q == [Q EXCEPT !.jobs[j].st = "put", !.jobs[j].read = r,
                          !.jobs[j].sha = ok(r)]
       IN /\ SetQ(q)
          /\ runContinuations(q.jobs)
    /\ UNCHANGED <<sessions, cancels, lastStart, pathCheck, emitted, timers, refusal,
                   installSessions, verifies>>
    /\ deliver

\* the existence read of job j returns: requestData.sha is set from a 2xx
\* answer, a 404 is let through, any other error is rethrown to the outer
\* catch; then the write is issued
GetResponse(j, r) ==
    /\ j \in JobIds
    /\ jobs[j].st = "get"
    /\ LET q == IF ok(r) \/ r = "notFound"
                THEN [Q EXCEPT !.jobs[j].st = "put", !.jobs[j].read = r,
                               !.jobs[j].sha = ok(r)]
                ELSE jobError([Q EXCEPT !.jobs[j].outcome = r], j, r = "rateLimited")
       IN /\ SetQ(q)
          /\ runContinuations(q.jobs)
    /\ handleRateLimitExceeded(r = "rateLimited")
    /\ UNCHANGED <<sessions, cancels, lastStart, pathCheck, refusal, installSessions, verifies>>
    /\ deliver

\* the write of job j returns and its outcome is counted into the stats of
\* its session, whatever the status of the session
PutResponseCounting(j, r) ==
    /\ j \in JobIds
    /\ jobs[j].st = "put"
    /\ LET q0 == [Q EXCEPT !.jobs[j].outcome = r]
           q  == IF ok(r) /\ j \in activeUploads
                 THEN jobComplete(q0, j)
                 ELSE jobError(q0, j, r = "rateLimited")
       IN /\ SetQ(q)
          /\ runContinuations(q.jobs)
    /\ IF ok(r)
       THEN checkRateLimits(r) /\ UNCHANGED timers
       ELSE handleRateLimitExceeded(r = "rateLimited")
    /\ sessions' = [sessions EXCEPT ![jobs[j].sessionId].stats =
                        IF ok(r) /\ j \in activeUploads
                        THEN [@ EXCEPT !.completed = @ + 1]
                        ELSE [@ EXCEPT !.failed = @ + 1]]
    /\ UNCHANGED <<cancels, lastStart, pathCheck, refusal, installSessions, verifies>>
    /\ deliver

\* the write of job j returns; the duration is read from activeUploads.get(jobId),
\* which throws into the catch when clear() removed the entry
PutResponse(j, r) ==
    /\ j \in JobIds
    /\ jobs[j].st = "put"
    /\ LET q0 == [Q EXCEPT !.jobs[j].outcome = r]
           q  == IF ok(r) /\ j \in activeUploads
                 THEN jobComplete(q0, j)
                 ELSE jobError(q0, j, r = "rateLimited")
       IN /\ SetQ(q)
          /\ runContinuations(q.jobs)
    /\ IF ok(r)
       THEN checkRateLimits(r) /\ UNCHANGED timers
       ELSE handleRateLimitExceeded(r = "rateLimited")
    /\ UNCHANGED <<sessions, cancels, lastStart, pathCheck, refusal, installSessions, verifies>>
    /\ deliver

\* the PQueue timeout of job j elapses (throwOnTimeout: false): its promise
\* resolves and its slot is released, the job body keeps running
Timeout(j) ==
    /\ j \in JobIds
    /\ jobs[j].st \in {"get", "put"}
    /\ jobs[j].slot
    /\ Cardinality({k \in JobIds : jobs[k].timedOut}) < MaxTimeouts
    /\ LET q == settle([Q EXCEPT !.jobs[j].timedOut = TRUE], j, "fulfilled")
       IN /\ SetQ(q)
          /\ runContinuations(q.jobs)
    /\ UNCHANGED <<sessions, cancels, timers, emitted, lastStart, pathCheck, refusal, installSessions, verifies>>
    /\ deliver

\* the resume callback of handleRateLimitExceeded fires: queue.start(),
\* emit rateLimitResumed
ResumeTimer ==
    /\ timers > 0
    /\ timers' = timers - 1
    /\ SetQ(processQueue([Q EXCEPT !.isPaused = FALSE]))
    /\ emitted' = [emitted EXCEPT !.rateLimitResumed = @ + 1]
    /\ UNCHANGED <<sessions, cleaned, cancels, calls, lastStart, pathCheck, refusal, installSessions, verifies>>
    /\ deliver

\* PQueue pause(), through UploadQueue.pause()
pause ==
    /\ isPaused' = TRUE
    /\ UNCHANGED <<sessions, cleaned, cancels, calls, jobs, queue, pendingCount,
                   activeUploads, stats, timers, emitted, startOrder, subscribers,
                   lastStart, pathCheck, refusal, installSessions, verifies>>

\* PQueue start(), through UploadQueue.start(): nothing when not paused, else
\* unpause and fill the free slots
start ==
    /\ SetQ(IF isPaused THEN processQueue([Q EXCEPT !.isPaused = FALSE]) ELSE Q)
    /\ UNCHANGED <<sessions, cleaned, cancels, calls, timers, emitted, lastStart, pathCheck, refusal, installSessions, verifies>>
    /\ deliver

\* UploadQueue.clearStats(): the four counters are set to 0
clearStats ==
    /\ stats' = [totalJobs |-> 0, completedJobs |-> 0, failedJobs |-> 0, rateLimitHits |-> 0]
    /\ UNCHANGED <<sessions, cleaned, cancels, calls, jobs, queue, pendingCount, isPaused,
                   activeUploads, timers, emitted, startOrder, subscribers, lastStart,
                   pathCheck, refusal, installSessions, verifies>>

\* UploadQueue.clear(): queue.clear() drops the waiting jobs (the promises of
\* their add never settle), activeUploads.clear(), clearStats(); the jobs in
\* flight keep running
clear ==
    /\ queue' = <<>>
    /\ jobs' = [j \in JobIds |-> IF jobs[j].st = "queued"
                                  THEN [jobs[j] EXCEPT !.st = "cleared"] ELSE jobs[j]]
    /\ activeUploads' = {}
    /\ stats' = [totalJobs |-> 0, completedJobs |-> 0, failedJobs |-> 0, rateLimitHits |-> 0]
    /\ UNCHANGED <<sessions, cleaned, cancels, calls, pendingCount, isPaused, timers,
                   emitted, startOrder, subscribers, lastStart, pathCheck, refusal, installSessions, verifies>>

Next ==
    \/ \E inst \in Installations, files \in Archives : Start(inst, files)
    \/ \E s \in 1..MaxSessions, inst \in Requesters : Execute(s, inst)
    \/ \E s \in 1..MaxSessions, inst \in Requesters : Cancel(s, inst)
    \/ \E c \in 1..MaxJobs : CleanupThen(c)
    \/ \E j \in 1..MaxJobs, r \in GetOutcomes : GetResponse(j, r)
    \/ \E j \in 1..MaxJobs, r \in PutOutcomes : PutResponse(j, r)
    \/ \E j \in 1..MaxJobs : Timeout(j)
    \/ ResumeTimer

Spec == Init /\ [][Next]_vars


\* the allSettled continuation always resumes once cleanupTemp has returned
FairSpec == Spec /\ WF_vars(\E c \in 1..MaxJobs : CleanupThen(c))

\* the upload queue driven through its public methods as well, with responses
\* that carry a low remaining quota; no batch is cancelled, no job times out,
\* and the continuation of /execute stays at its await of cleanupTemp
NextQueue ==
    \/ \E inst \in Installations, files \in Archives : Start(inst, files)
    \/ \E s \in 1..MaxSessions, inst \in Requesters : Execute(s, inst)
    \/ \E j \in 1..MaxJobs, r \in GetOutcomesQuota : GetResponse(j, r)
    \/ \E j \in 1..MaxJobs, r \in PutOutcomesQuota : PutResponse(j, r)
    \/ ResumeTimer
    \/ pause
    \/ start

SpecQueue == Init /\ [][NextQueue]_vars

\* a request in flight gets its response or its network error
FairSpecQueue ==
    SpecQueue /\ WF_vars(\E j \in 1..MaxJobs :
                            \/ \E r \in GetOutcomesQuota : GetResponse(j, r)
                            \/ \E r \in PutOutcomesQuota : PutResponse(j, r))

\* the uploads with progress streams opened and closed at any time
NextSSE ==
    \/ \E inst \in Installations, files \in Archives : Start(inst, files)
    \/ \E s \in 1..MaxSessions, inst \in Requesters : Execute(s, inst)
    \/ \E c \in 1..MaxJobs : CleanupThen(c)
    \/ \E j \in 1..MaxJobs, r \in GetOutcomes : GetResponse(j, r)
    \/ \E j \in 1..MaxJobs, r \in PutOutcomes \cup {"okLow"} : PutResponse(j, r)
    \/ ResumeTimer
    \/ \E s \in 1..MaxSessions : setupSSE(s)
    \/ \E i \in 1..MaxSubscribers : close(i)

SpecSSE == Init /\ [][NextSSE]_vars

\* the uploads with /start requests that are refused and with uploads over
\* the limits of validateFileList; the quota is never exhausted
NextRequests ==
    \/ \E inst \in Installations, files \in Archives \cup LargeArchives : Start(inst, files)
    \/ \E inst \in Installations, owner \in BOOLEAN, repo \in BOOLEAN,
          file \in {<<>>} \cup {<<files>> : files \in Archives \cup RejectedArchives} :
            StartInvalid(inst, owner, repo, file)
    \/ \E s \in 1..MaxSessions, inst \in Requesters : Execute(s, inst)
    \/ \E c \in 1..MaxJobs : CleanupThen(c)
    \/ \E j \in 1..MaxJobs, r \in GetOutcomes \ {"rateLimited"} : GetResponse(j, r)
    \/ \E j \in 1..MaxJobs, r \in PutOutcomes \ {"rateLimited"} : PutResponse(j, r)

SpecRequests == Init /\ [][NextRequests]_vars

\* the uploads of files that may exist in the repository already
NextJobs ==
    \/ \E inst \in Installations, files \in Archives : Start(inst, files)
    \/ \E s \in 1..MaxSessions, inst \in Requesters : Execute(s, inst)
    \/ \E c \in 1..MaxJobs : CleanupThen(c)
    \/ \E j \in 1..MaxJobs, r \in GetOutcomesExisting : GetResponse(j, r)
    \/ \E j \in 1..MaxJobs, r \in PutOutcomes : PutResponse(j, r)
    \/ ResumeTimer

SpecJobs == Init /\ [][NextJobs]_vars

\* progress streams with their keep-alive pings, over uploads whose quota is
\* never exhausted
NextStreams ==
    \/ \E inst \in Installations, files \in Archives : Start(inst, files)
    \/ \E s \in 1..MaxSessions, inst \in Requesters : Execute(s, inst)
    \/ \E j \in 1..MaxJobs, r \in GetOutcomes \ {"rateLimited"} : GetResponse(j, r)
    \/ \E j \in 1..MaxJobs, r \in PutOutcomes \ {"rateLimited"} : PutResponse(j, r)
    \/ \E s \in 1..MaxSessions : setupSSE(s)
    \/ \E i \in 1..MaxSubscribers : ping(i)
    \/ \E i \in 1..MaxSubscribers : close(i)

SpecStreams == Init /\ [][NextStreams]_vars

\* isValidPath(pathCheck.filePath)
testPath ==
    /\ ~pathCheck.tested
    /\ pathCheck' = [pathCheck EXCEPT !.tested = TRUE,
                                      !.isValid = isValidPath(pathCheck.filePath)]
    /\ UNCHANGED <<sessions, cleaned, cancels, calls, queueVars, timers, emitted,
                   subscribers, lastStart, refusal, installSessions, verifies>>

\* sanitizePath(pathCheck.filePath)
cleanPath ==
    /\ ~pathCheck.sanitizedYet
    /\ pathCheck' = [pathCheck EXCEPT !.sanitizedYet = TRUE,
                                      !.sanitized = sanitizePath(pathCheck.filePath)]
    /\ UNCHANGED <<sessions, cleaned, cancels, calls, queueVars, timers, emitted,
                   subscribers, lastStart, refusal, installSessions, verifies>>

NextPaths == testPath \/ cleanPath

SpecPaths == InitPaths /\ [][NextPaths]_vars

\* the upload queue with every public method of UploadQueue called at any
\* time; the quota is never exhausted
NextApi ==
    \/ \E inst \in Installations, files \in Archives : Start(inst, files)
    \/ \E s \in 1..MaxSessions, inst \in Requesters : Execute(s, inst)
    \/ \E j \in 1..MaxJobs, r \in GetOutcomes \ {"rateLimited"} : GetResponse(j, r)
    \/ \E j \in 1..MaxJobs, r \in PutOutcomes \ {"rateLimited"} : PutResponse(j, r)
    \/ pause
    \/ start
    \/ clearStats
    \/ clear

SpecApi == Init /\ [][NextApi]_vars

\* a request in flight gets its response or its network error
FairSpecApi ==
    SpecApi /\ WF_vars(\E j \in 1..MaxJobs :
                          \/ \E r \in GetOutcomes \ {"rateLimited"} : GetResponse(j, r)
                          \/ \E r \in PutOutcomes \ {"rateLimited"} : PutResponse(j, r))

(***************************** install routes *****************************)
\* GET /api/install/start of browser session b: a new state is stored in
\* req.session.installState (issued is the record of the states /start gave
\* this session that no verification has used up)
installStart(b) ==
    /\ \E t \in StateTokens :
          /\ \A c \in BrowserSessions : t \notin installSessions[c].issued
          /\ \A v \in 1..Len(verifies) : verifies[v].consumed # t
          /\ installSessions' = [installSessions EXCEPT ![b].installState = t,
                                                         ![b].issued = @ \cup {t}]
    /\ UNCHANGED <<uploadVars, refusal, verifies>>

\* POST /api/install/verify of browser session b, up to the await: 400 without
\* installation_id, 400 when state !== req.session.installState, else
\* GitHubAuth.verifyInstallation is called (status 0: not answered yet)
verify(b, installation_id, state) ==
    /\ Len(verifies) < MaxVerifies
    /\ verifies' = Append(verifies,
            [session |-> b, state |-> state, consumed |-> "",
             outstanding |-> installSessions[b].issued,
             status |-> IF ~installation_id THEN 400
                        ELSE IF state # installSessions[b].installState THEN 400
                        ELSE 0])
    /\ UNCHANGED <<uploadVars, refusal, installSessions>>

\* verifyInstallation returns for request v: the installation (the session is
\* marked installed, installState = null, 200), null (404), or it throws (500)
verifyInstallation(v, outcome) ==
    /\ v \in 1..Len(verifies)
    /\ verifies[v].status = 0
    /\ LET b == verifies[v].session
       IN IF outcome = "installation"
          THEN /\ verifies' = [verifies EXCEPT ![v].status = 200,
                                               ![v].outstanding = installSessions[b].issued,
                                               ![v].consumed = installSessions[b].installState]
               /\ installSessions' = [installSessions EXCEPT
                                         ![b].installed = TRUE,
                                         ![b].installState = "null",
                                         ![b].issued = @ \ {installSessions[b].installState}]
          ELSE /\ verifies' = [verifies EXCEPT ![v].status =
                                                 IF outcome = "null" THEN 404 ELSE 500]
               /\ UNCHANGED installSessions
    /\ UNCHANGED <<uploadVars, refusal>>

NextInstall ==
    \/ \E b \in BrowserSessions : installStart(b)
    \/ \E b \in BrowserSessions, installation_id \in BOOLEAN, state \in SuppliedStates :
            verify(b, installation_id, state)
    \/ \E v \in 1..MaxVerifies, outcome \in {"installation", "null", "throws"} :
            verifyInstallation(v, outcome)

SpecInstall == Init /\ [][NextInstall]_vars

\* the upload routes with the requests they refuse
Routes == {"execute", "status", "cancel"}

NextAccess ==
    \/ \E inst \in Installations, files \in Archives : Start(inst, files)
    \/ \E s \in 1..MaxSessions, inst \in Requesters : Execute(s, inst)
    \/ \E s \in 1..MaxSessions, inst \in Requesters : Cancel(s, inst)
    \/ \E route \in Routes, s \in 1..MaxSessions, inst \in Requesters :
            NotFound(route, s, inst)
    \/ \E route \in Routes, s \in 1..MaxSessions, inst \in Requesters :
            AccessDenied(route, s, inst)
    \/ \E c \in 1..MaxJobs : CleanupThen(c)
    \/ \E j \in 1..MaxJobs, r \in {"notFound"} : GetResponse(j, r)
    \/ \E j \in 1..MaxJobs, r \in {"ok"} : PutResponse(j, r)

SpecAccess == Init /\ [][NextAccess]_vars

\* a callback handed to setTimeout is always run
TimerFairSpec == Spec /\ WF_vars(ResumeTimer)

(***************************** properties **********************************)
TerminalStatuses == {"completed", "cancelled", "failed"}

StatusRank(status) ==
    CASE status = "pending" -> 0
      [] status = "uploading" -> 1
      [] status \in TerminalStatuses -> 2

JobsOf(sessionId) == {j \in JobIds : jobs[j].sessionId = sessionId}

Queued == {queue[i] : i \in 1..Len(queue)}

\* C1: at most Concurrency jobs have begun execution and not yet finished.
C1_ActiveAtMostN == Cardinality(Running) <= Concurrency

\* C2: a job never begins execution while a job with a lower priority value
\* that was queued with it is still waiting, and jobs dispatched in one step
\* begin in ascending order of priority value.
C2_LowerPriorityFirst ==
    [][\A a \in (Len(startOrder) + 1)..Len(startOrder') :
          /\ \A k \in Queued :
                jobs'[k].st = "queued" =>
                    jobs[k].priority >= jobs'[startOrder'[a]].priority
          /\ \A b \in (a + 1)..Len(startOrder') :
                jobs'[startOrder'[a]].priority <= jobs'[startOrder'[b]].priority]_vars

\* C3: while the queue is paused with a resume timer pending, no further
\* resume timer is scheduled and no further Exceeded event is emitted.
C3_SinglePauseResumeCycle ==
    [][(isPaused /\ timers > 0) =>
          /\ timers' <= timers
          /\ emitted'.rateLimitExceeded = emitted.rateLimitExceeded]_vars

\* C4: stats.total is the number of accepted files, never changes, and
\* completed + failed never exceeds it.
C4_TotalFixedAndBounds ==
    /\ [](\A s \in SessionIds :
            /\ sessions[s].stats.total = Len(sessions[s].files)
            /\ sessions[s].stats.completed + sessions[s].stats.failed
                  <= sessions[s].stats.total)
    /\ [][\A s \in SessionIds :
            /\ sessions'[s].stats.total = sessions[s].stats.total
            /\ sessions'[s].files = sessions[s].files]_vars

\* a batch whose upload ran to the end: status completed with its jobs finished
C4_Witness ==
    \E s \in SessionIds :
        /\ sessions[s].status = "completed"
        /\ Cardinality({j \in JobsOf(s) : jobs[j].st \in {"complete", "error"}})
              = sessions[s].stats.total

\* C5: a batch whose status is completed has counted every job outcome.
C5_CompletedCountsAll ==
    \A s \in SessionIds :
        sessions[s].status = "completed" =>
            sessions[s].stats.completed + sessions[s].stats.failed = sessions[s].stats.total

\* C6: the status of a batch never moves to an earlier status and never
\* leaves a terminal status.
C6_StatusMonotonic ==
    [][\A s \in SessionIds :
          /\ StatusRank(sessions'[s].status) >= StatusRank(sessions[s].status)
          /\ sessions[s].status \in TerminalStatuses =>
                sessions'[s].status = sessions[s].status]_vars

\* C7: a job that is waiting in the queue while its batch is cancelled
\* never begins execution.
C7_NoStartAfterCancel ==
    [][\A j \in JobIds :
          (jobs[j].st = "queued" /\ sessions[jobs[j].sessionId].status = "cancelled")
              => jobs'[j].st = "queued"]_vars

\* C8: once cancelled, a batch stays cancelled through every later job
\* outcome and every later step of its completion handling.
C8_CancelledForever ==
    [][\A s \in SessionIds :
          (sessions[s].status = "cancelled" /\ Len(calls') = Len(calls))
              => sessions'[s].status = "cancelled"]_vars

\* C9: from the cancel of a batch onward no job outcome changes its
\* stats.completed or stats.failed.
C9_NoCountAfterCancel ==
    [][\A s \in SessionIds :
          cancels'[s] > 0 =>
              /\ sessions'[s].stats.completed = sessions[s].stats.completed
              /\ sessions'[s].stats.failed = sessions[s].stats.failed]_vars

\* a cancelled batch one of whose jobs has finished while another is in flight
C9_Witness ==
    \E s \in SessionIds :
        /\ sessions[s].status = "cancelled"
        /\ \E j \in JobsOf(s) : jobs[j].st \in {"complete", "error"}
        /\ \E j \in JobsOf(s) : j \in Running

AllTerminal(sessionId) ==
    /\ JobsOf(sessionId) # {}
    /\ \A j \in JobsOf(sessionId) : jobs[j].st \in {"complete", "error"}

\* C10: the failure of a job leaves every other job as it was, except that a
\* waiting job may be dispatched into the freed slot, and a batch all of whose
\* jobs have terminated reaches a terminal status.
C10_FailureIsolated ==
    /\ [][\A j \in JobIds :
            (jobs[j].st # "error" /\ jobs'[j].st = "error") =>
                \A k \in JobIds \ {j} :
                    /\ jobs'[k].promise = jobs[k].promise
                    /\ \/ jobs'[k].st = jobs[k].st
                       \/ jobs[k].st = "queued" /\ jobs'[k].st = "get"]_vars
    /\ \A s \in 1..MaxSessions :
            (s \in SessionIds /\ AllTerminal(s))
                ~> (s \in SessionIds /\ sessions[s].status \in TerminalStatuses)

\* a completed batch with a failed job and a successful sibling
C10_Witness ==
    \E s \in SessionIds :
        /\ sessions[s].status = "completed"
        /\ \E j \in JobsOf(s) : jobs[j].st = "error"
        /\ \E j \in JobsOf(s) : jobs[j].st = "complete"

\* C11: the status query reports min(100, (completed + failed) / total x 100)
\* of the batch's counters, and status completed with percentage 100 for a
\* batch whose jobs have all succeeded.
C11_CompletedReportsHundred ==
    \A s \in SessionIds :
        /\ getStatus(s).progress * sessions[s].stats.total
              <= (sessions[s].stats.completed + sessions[s].stats.failed) * 100
        /\ (/\ sessions[s].status = "completed"
            /\ JobsOf(s) # {}
            /\ \A j \in JobsOf(s) : jobs[j].st = "complete")
              => getStatus(s) = [status |-> "completed", progress |-> 100,
                              stats |-> sessions[s].stats]

\* job j ends in this step with the response r
EndsWith(j, r) ==
    /\ j \in 1..Len(jobs')
    /\ jobs'[j].outcome = r
    /\ (j \in JobIds => jobs[j].outcome = "none")

\* C13: when a job fails with the quota-exhausted outcome (403, remaining 0)
\* the governor increments the exhaustion counter, pauses the queue and emits
\* Exceeded in that same step; the queue is then resumed by the timer, with a
\* Resumed event, so it never stays paused forever.
C13_ExceededPausesThenResumes ==
    /\ [][\A j \in 1..MaxJobs :
            EndsWith(j, "rateLimited") =>
                /\ stats'.rateLimitHits = stats.rateLimitHits + 1
                /\ isPaused'
                /\ emitted'.rateLimitExceeded = emitted.rateLimitExceeded + 1
                /\ timers' = timers + 1]_vars
    /\ [][(isPaused /\ ~isPaused') =>
            emitted'.rateLimitResumed = emitted.rateLimitResumed + 1]_vars
    /\ (isPaused ~> ~isPaused)

\* a job was refused for quota, the queue was paused and has been resumed
C13_Witness ==
    /\ \E j \in JobIds : jobs[j].outcome = "rateLimited"
    /\ stats.rateLimitHits = 1
    /\ emitted.rateLimitExceeded = 1
    /\ emitted.rateLimitResumed = 1
    /\ ~isPaused
    /\ timers = 0

\* C15: a job refused for quota exhaustion is handled by the pause/resume
\* cycle only: it is not counted as failed, no JobError is emitted for it and
\* its submit promise does not reject, unless its own timeout also elapsed.
C15_QuotaFailureNotSurfaced ==
    /\ \A j \in JobIds :
          (jobs[j].outcome = "rateLimited" /\ ~jobs[j].timedOut) =>
              jobs[j].st # "error" /\ jobs[j].promise # "rejected"
    /\ stats.failedJobs <=
          Cardinality({j \in JobIds : jobs[j].st = "error" /\
                          (jobs[j].outcome # "rateLimited" \/ jobs[j].timedOut)})

\* C16: a job whose execution exceeds the per-job timeout is marked failed:
\* its submit outcome is a failure and it is counted as failed, while the
\* other jobs go on.
C16_TimeoutFailsJob ==
    /\ \A j \in JobIds : jobs[j].timedOut => jobs[j].promise = "rejected"
    /\ stats.failedJobs >= Cardinality({j \in JobIds : jobs[j].timedOut})

\* C17: cleanupTemp is invoked exactly once in the lifetime of a batch,
\* whether it ends by completion, by cancellation, or by cancellation with
\* jobs in flight.
C17_CleanupExactlyOnce ==
    \A s \in SessionIds :
        /\ cleaned[s] <= 1
        /\ sessions[s].status \in {"completed", "cancelled"} => cleaned[s] = 1

\* C12: while the queue is paused no queued job starts, jobs in flight still
\* run to their end, and once the queue is resumed every job still queued
\* eventually starts.
\* (A job starts once and ends once, so the two progress parts are stated
\* for all jobs together: the jobs in flight all come to their end, paused or
\* not, and the waiting jobs of a queue that is not paused are all dispatched
\* unless the queue is paused again.)
C12_PauseHoldsQueuedOnly ==
    /\ [][Len(startOrder') > Len(startOrder) => ~isPaused']_vars
    /\ (Running # {}) ~> (Running = {})
    /\ (queue # <<>> /\ ~isPaused) ~> (queue = <<>> \/ isPaused)

\* paused through pause(): a job waits although a slot is free, and a job that
\* was in flight has completed
C12_Witness ==
    /\ isPaused
    /\ timers = 0
    /\ stats.rateLimitHits = 0
    /\ queue # <<>>
    /\ pendingCount < Concurrency
    /\ \E j \in JobIds : jobs[j].st = "complete"

\* C14: after every job outcome, successful or failed, whose response reports
\* a remaining quota below the threshold of 10, a RateLimitWarning is emitted;
\* the warning does not pause the queue. (Stated for the outcomes other than
\* quota exhaustion, which the claim covers as well.)
C14_WarningAfterEveryOutcome ==
    /\ [][\A j \in 1..MaxJobs, r \in PutOutcomesQuota \ {"rateLimited"} :
            (EndsWith(j, r) /\ remaining(r) < WarningThreshold) =>
                emitted'.rateLimitWarning = emitted.rateLimitWarning + 1]_vars
    /\ [][emitted'.rateLimitWarning # emitted.rateLimitWarning =>
                isPaused' = isPaused]_vars

\* the events of this step that subscriber i is to receive: the rate-limit
\* events and the job events of its batch
DueTo(i) ==
    SelectSeq(stepEvents, LAMBDA e : \/ e.event \in RateLimitEvents
                                     \/ e.sessionId = subscribers[i].sessionId)

\* C18: every JobStart, JobComplete, JobError and rate-limit event emitted by
\* the queue that runs a batch's jobs is delivered to each subscriber attached
\* at that moment: job events to the subscribers of that batch, rate-limit
\* events to all.
C18_EventsDelivered ==
    [][\A i \in 1..Len(subscribers) :
          subscribers[i].handlers # {} =>
              subscribers'[i].written = subscribers[i].written \o DueTo(i)]_vars

\* C19: a subscriber of batch b never receives a JobStart, JobComplete or
\* JobError of another batch: nothing such is in what was written to it, and
\* its handlers write nothing for such an event of any job.
C19_OnlyOwnBatchEvents ==
    \A i \in 1..Len(subscribers) :
        /\ \A k \in 1..Len(subscribers[i].written) :
              subscribers[i].written[k].event \in JobEvents =>
                  subscribers[i].written[k].sessionId = subscribers[i].sessionId
        /\ \A j \in JobIds, event \in JobEvents :
              LET w == eventHandlers(subscribers[i], Event(event, jobs[j].sessionId, j))
              IN \A k \in 1..Len(w) : w[k].sessionId = subscribers[i].sessionId

\* a subscriber is attached while jobs of another batch run and end
C19_Witness ==
    \E i \in 1..Len(subscribers) :
        /\ subscribers[i].handlers # {}
        /\ \E j \in JobIds : /\ jobs[j].sessionId # subscribers[i].sessionId
                              /\ jobs[j].st = "complete"
        /\ \E j \in JobIds : /\ jobs[j].sessionId # subscribers[i].sessionId
                              /\ jobs[j].st \in {"get", "put"}

\* C20: a /start request with owner or repo missing, with no uploaded file,
\* or with no valid file after the path filter is answered 400 at once, and
\* it stores no session and submits no job: sessions and queue are unchanged.
C20_BadRequestRejected ==
    [][(/\ lastStart' # lastStart
        /\ \/ ~lastStart'.owner
           \/ ~lastStart'.repo
           \/ lastStart'.file = <<>>
           \/ validFiles(lastStart'.file[1]) = <<>>)
          => /\ lastStart'.status = 400
             /\ UNCHANGED <<sessions, cleaned, calls, queueVars>>]_vars

\* a request with owner, repo and a file, none of whose paths is valid, was
\* refused while a batch was uploading
C20_Witness ==
    /\ lastStart.status = 400
    /\ lastStart.owner /\ lastStart.repo
    /\ lastStart.file # <<>>
    /\ lastStart.error = "No valid files found in upload"
    /\ sessions # <<>>
    /\ Running # {}

\* C24: exactly one job exists per accepted file of a batch: whatever is
\* done to the batch, /execute called again included, the jobs submitted for
\* it are never more than its stats.total, and are as many once it has left
\* pending by an execute.
C24_OneJobPerFile ==
    \A s \in SessionIds :
        /\ Cardinality(JobsOf(s)) <= sessions[s].stats.total
        /\ (\E c \in 1..Len(calls) : calls[c].sessionId = s)
              => Cardinality(JobsOf(s)) = sessions[s].stats.total

\* how far a job has got
JobRank(st) ==
    CASE st = "queued" -> 0
      [] st = "get" -> 1
      [] st = "put" -> 2
      [] st \in {"complete", "error"} -> 3

\* C25: the queue never retries a job: a job issues its existence read once
\* and its write at most once (it only moves forward, one request at a time),
\* and a job that has failed or completed is never run again.
C25_NoRetry ==
    /\ [][\A j \in JobIds :
            /\ JobRank(jobs'[j].st) >= JobRank(jobs[j].st)
            /\ jobs[j].st \in {"complete", "error"} => jobs'[j].st = jobs[j].st
            /\ jobs[j].st = "queued" => jobs'[j].st \in {"queued", "get"}]_vars
    /\ [](\A a, b \in 1..Len(startOrder) : startOrder[a] = startOrder[b] => a = b)

\* a job has failed at its read, another at its write, and the queue ran on
C25_Witness ==
    /\ \E j \in JobIds : jobs[j].st = "error" /\ jobs[j].outcome = "error"
    /\ \E j \in JobIds : jobs[j].st = "complete"
    /\ Len(startOrder) = MaxJobs
    /\ Running = {}

\* C27: among waiting jobs of equal priority, jobs begin in the order of their
\* submission: the queue holds them in that order, and a job never starts
\* while a job of its priority submitted before it still waits.
C27_FifoAmongEqualPriority ==
    /\ [](\A a, b \in 1..Len(queue) :
            (a < b /\ jobs[queue[a]].priority = jobs[queue[b]].priority)
                => queue[a] < queue[b])
    /\ [][\A k \in Len(startOrder) + 1..Len(startOrder') :
            \A i \in 1..Len(queue') :
                jobs'[queue'[i]].priority = jobs'[startOrder'[k]].priority
                    => queue'[i] > startOrder'[k]]_vars

\* two jobs of one priority wait together (job ids grow with submission)
C27_Witness ==
    /\ Len(queue) >= 2
    /\ jobs[queue[1]].priority = jobs[queue[2]].priority

\* C28: pausing is global to the queue: while it stays paused because a job
\* of one batch exhausted the quota, no waiting job of any batch starts, nor
\* does a job submitted meanwhile.
C28_PauseIsGlobal ==
    [][(isPaused /\ isPaused') =>
          \A j \in 1..Len(jobs') :
              (j \notin JobIds \/ jobs[j].st = "queued") => jobs'[j].st = "queued"]_vars

\* the queue is paused by a job of one batch, a slot is free, and a job of
\* another batch waits
C28_Witness ==
    /\ isPaused
    /\ pendingCount < Concurrency
    /\ \E j, k \in JobIds : /\ jobs[j].outcome = "rateLimited"
                             /\ jobs[k].st = "queued"
                             /\ jobs[k].sessionId # jobs[j].sessionId

\* C26: a job issues its write if and only if its existence read succeeded,
\* and then the write carries the sha of the read, or answered not found, and
\* then it carries none; after any other answer the job fails with no write.
C26_WriteIffReadOkOrNotFound ==
    [][\A j \in JobIds :
          (jobs[j].st = "get" /\ jobs'[j].st # "get") =>
              /\ jobs'[j].st = "put" <=> jobs'[j].read \in {"ok", "notFound"}
              /\ jobs'[j].st = "put" => (jobs'[j].sha <=> jobs'[j].read = "ok")
              /\ jobs'[j].st # "put" =>
                    /\ jobs'[j].st = "error"
                    /\ jobs'[j].outcome \in GetOutcomesExisting \ {"ok", "notFound"}
                    /\ ~jobs'[j].sha]_vars

\* one job writes with the sha of its read, one writes a new file, and one
\* has failed with no write in flight
C26_Witness ==
    \E a, b, c \in JobIds :
        /\ jobs[a].st = "put" /\ jobs[a].read = "ok" /\ jobs[a].sha
        /\ jobs[b].st = "put" /\ jobs[b].read = "notFound" /\ ~jobs[b].sha
        /\ jobs[c].st = "error" /\ jobs[c].outcome = "error" /\ ~jobs[c].sha

\* C21: batch creation fails, creating no batch, whenever the accepted files
\* are more than 1000 or their sizes add up to more than the maximum: every
\* batch there is is within both limits.
C21_LimitsEnforced ==
    \A s \in SessionIds : validateFileList(sessions[s].files)

\* the indices of the valid paths of a file list, for the uploads of the model
ValidIndicesOf ==
    [files \in Archives \cup RejectedArchives \cup LargeArchives |->
        {i \in 1..Len(files) : isValidPath(files[i])}]

ValidIndices(files) == ValidIndicesOf[files]

\* the k-th of them, in the order of the list
KthValid(files, k) ==
    CHOOSE i \in ValidIndices(files) :
        Cardinality({m \in ValidIndices(files) : m < i}) = k - 1

Written(i) ==
    SubSeq(subscribers'[i].written, Len(subscribers[i].written) + 1,
           Len(subscribers'[i].written))

\* C29: delivery does not buffer: the first thing every subscriber receives
\* is Connected, and nothing emitted before it attached is delivered to it:
\* attaching writes Connected alone, and what is written later is an event of
\* the step that writes it, or a ping.
C29_ConnectedFirstNoReplay ==
    /\ [](\A i \in 1..Len(subscribers) :
            subscribers[i].written[1] = Event("connected", subscribers[i].sessionId, 0))
    /\ [][\A i \in 1..Len(subscribers') :
            IF i > Len(subscribers)
            THEN subscribers'[i].written =
                    <<Event("connected", subscribers'[i].sessionId, 0)>>
            ELSE /\ SubSeq(subscribers'[i].written, 1, Len(subscribers[i].written))
                        = subscribers[i].written
                 /\ \A k \in 1..Len(Written(i)) :
                        \/ Written(i)[k] = PingLine
                        \/ \E m \in 1..Len(stepEvents) : Written(i)[k] = stepEvents[m]]_vars

\* a subscriber attached to a batch whose jobs had begun, and has Connected
\* alone on its stream
C29_Witness ==
    \E i \in 1..Len(subscribers) :
        /\ subscribers[i].written = <<Event("connected", subscribers[i].sessionId, 0)>>
        /\ subscribers[i].handlers # {}
        /\ \E j \in JobIds : /\ jobs[j].sessionId = subscribers[i].sessionId
                              /\ jobs[j].st = "complete"

RECURSIVE Listeners(_)
Listeners(n) == IF n = 0 THEN 0 ELSE Cardinality(subscribers[n].handlers) + Listeners(n - 1)

\* C30: when a subscriber disconnects its six handlers and its keep-alive
\* timer are removed: nothing more is written to it, and the listeners
\* registered are always six for each subscriber attached.
C30_DisconnectRemovesAll ==
    /\ [](\A i \in 1..Len(subscribers) :
            subscribers[i].ended => subscribers[i].handlers = {} /\ ~subscribers[i].keepAlive)
    /\ [](Listeners(Len(subscribers)) =
            6 * Cardinality({i \in 1..Len(subscribers) : ~subscribers[i].ended}))
    /\ [][\A i \in 1..Len(subscribers) :
            subscribers[i].ended => subscribers'[i] = subscribers[i]]_vars

\* one subscriber has disconnected after a ping, another is attached, and
\* jobs have run since
C30_Witness ==
    \E i, k \in 1..Len(subscribers) :
        /\ subscribers[i].ended
        /\ subscribers[i].written = <<Event("connected", subscribers[i].sessionId, 0), PingLine>>
        /\ ~subscribers[k].ended
        /\ \E j \in JobIds : jobs[j].st = "complete"

\* the segments of p between its "/" separators that are ".."
DotDotSegments(p) ==
    {i \in 1..Len(p) : /\ MatchAt(p, i, <<".", ".">>)
                       /\ (i = 1 \/ p[i - 1] = "/")
                       /\ (i + 2 > Len(p) \/ p[i + 2] = "/")}

\* the last component of p up to its first dot, in upper case, is a device name
NamesReservedDevice(p) ==
    \E i \in 1..Len(p), k \in 1..Len(p) :
        /\ i <= k
        /\ (i = 1 \/ p[i - 1] = "/")
        /\ (k = Len(p) \/ p[k + 1] = ".")
        /\ \A m \in i..Len(p) : p[m] # "/"
        /\ \A m \in i..k : p[m] # "."
        /\ toUpperCase(SubSeq(p, i, k)) \in reservedNames

\* the parts of p that sanitizePath keeps when no ".." follows them
NamedParts(p) ==
    LET parts == split(TrimAll(TrimAll(NormalizeSeparators(RemoveAll(p, {NulByte})),
                                       WhiteSpace), {"/"}))
    IN [named |-> Cardinality({i \in 1..Len(parts) :
                        /\ parts[i] \notin {<<>>, <<".">>, <<".", ".">>}
                        /\ cleanPart(parts[i]) # <<>>}),
        dotdot |-> Cardinality({i \in 1..Len(parts) : parts[i] = <<".", ".">>})]

\* the number of segments of a sanitized path
SegmentCount(p) == IF p = <<>> THEN 0 ELSE Len(split(p))

C38_SanitizeNormalForm ==
    pathCheck.sanitizedYet =>
        LET q == pathCheck.sanitized
        IN /\ q # <<>> => \A i \in 1..Len(split(q)) :
                               split(q)[i] \notin {<<>>, <<".">>, <<".", ".">>}
           /\ q # <<>> => q[1] # "/" /\ q[Len(q)] # "/"
           /\ sanitizePath(q) = q

\* the jobs whose body ends in the catch in this step
FailingNow == {j \in JobIds : jobs[j].st \in {"get", "put"} /\ jobs'[j].st = "error"}

\* C31: the queue is paused by the catch, the exhaustion counter incremented
\* and rateLimitExceeded emitted only for a failure that is a 403 with
\* remaining 0, on the read or on the write; any other failure is counted and
\* emitted as jobError and leaves the pause flag and the counter alone.
C31_ExceededOnlyOnExhaustion ==
    [][LET exhausted == {j \in FailingNow : jobs'[j].outcome = "rateLimited"}
       IN /\ (\/ stats'.rateLimitHits # stats.rateLimitHits
               \/ emitted'.rateLimitExceeded # emitted.rateLimitExceeded)
                => exhausted # {}
          /\ exhausted # {} =>
                /\ isPaused'
                /\ stats'.rateLimitHits = stats.rateLimitHits + 1
                /\ emitted'.rateLimitExceeded = emitted.rateLimitExceeded + 1
          /\ (FailingNow # {} /\ exhausted = {}) =>
                /\ isPaused' = isPaused
                /\ stats'.rateLimitHits = stats.rateLimitHits
                /\ emitted'.rateLimitExceeded = emitted.rateLimitExceeded
          /\ FailingNow # {} =>
                /\ stats'.failedJobs = stats.failedJobs + 1
                /\ \E j \in FailingNow, m \in 1..Len(stepEvents) :
                        stepEvents[m] = Event("jobError", jobs[j].sessionId, j)]_vars

\* one job failed with a 403 that left quota and the queue went on, another
\* then failed on an exhausted quota and the queue is paused
C31_Witness ==
    /\ isPaused
    /\ stats.rateLimitHits = 1
    /\ stats.failedJobs = 2
    /\ \E j, k \in JobIds : /\ jobs[j].st = "error" /\ jobs[j].outcome = "errorLow"
                            /\ jobs[k].st = "error" /\ jobs[k].outcome = "rateLimited"

\* C33: no job is dispatched while a resume timer is still pending: after a
\* second exhaustion the queue stays paused until the last timer has fired.
C33_NoDispatchWhileWaitPending ==
    [][Len(startOrder') > Len(startOrder) => timers' = 0]_vars

\* C34: under any interleaving of addUploadJob, job outcomes, pause, start,
\* clearStats and clear, completedJobs + failedJobs <= totalJobs.
C34_CountersWithinTotal ==
    stats.completedJobs + stats.failedJobs <= stats.totalJobs

\* C35: a job is reported as completed (jobComplete, completedJobs++, promise
\* fulfilled) exactly when its write succeeded, also when clear() was called
\* while it was in flight.
C35_CompleteIffWriteSucceeded ==
    [][\A j \in JobIds :
          (jobs[j].st = "put" /\ jobs'[j].st # "put") =>
              (ok(jobs'[j].outcome) <=>
                  /\ jobs'[j].st = "complete"
                  /\ jobs'[j].promise = "fulfilled"
                  /\ stats'.completedJobs = stats.completedJobs + 1
                  /\ \E m \in 1..Len(stepEvents) :
                        stepEvents[m] = Event("jobComplete", jobs[j].sessionId, j))]_vars

\* the number of times job j was dispatched
Starts(j) == Cardinality({k \in 1..Len(startOrder) : startOrder[k] = j})

\* C32: a job that begins execution emits jobStart first and then exactly one
\* of jobComplete and jobError, with its own job id and batch id: a job is
\* dispatched once, its terminal event is emitted after its jobStart and
\* while it is running, a job that has ended emits nothing more, and every
\* job that runs ends.
C32_StartThenOneTerminal ==
    /\ [](\A j \in JobIds :
            /\ jobs[j].st \in {"get", "put", "complete", "error"} => Starts(j) = 1
            /\ jobs[j].st \in {"queued", "cleared"} => Starts(j) = 0)
    /\ [][\A m \in 1..Len(stepEvents) :
            LET e == stepEvents[m]
            IN e.event \in JobEvents =>
                 /\ e.jobId \in 1..Len(jobs')
                 /\ e.sessionId = jobs'[e.jobId].sessionId
                 /\ e.event = "jobStart" =>
                        /\ e.jobId \in JobIds => jobs[e.jobId].st = "queued"
                        /\ jobs'[e.jobId].st = "get"
                 /\ e.event # "jobStart" =>
                        /\ e.jobId \in JobIds
                        /\ jobs[e.jobId].st \in {"get", "put"}
                        /\ Starts(e.jobId) = 1
                        /\ jobs'[e.jobId].st =
                              (IF e.event = "jobComplete" THEN "complete" ELSE "error")
                        /\ \A n \in 1..Len(stepEvents) :
                              (stepEvents[n].jobId = e.jobId /\ n # m) =>
                                  stepEvents[n].event \notin JobEvents]_vars
    /\ [][\A j \in JobIds :
            jobs[j].st \in {"complete", "error"} =>
              /\ jobs'[j].st = jobs[j].st
              /\ \A m \in 1..Len(stepEvents) : stepEvents[m].jobId # j]_vars
    /\ (Running # {}) ~> (\A j \in JobIds : jobs[j].st \in {"queued", "cleared", "complete", "error"})

\* one job ended with jobComplete and one with jobError, each dispatched once
C32_Witness ==
    \E j, k \in JobIds :
        /\ jobs[j].st = "complete" /\ Starts(j) = 1
        /\ jobs[k].st = "error" /\ Starts(k) = 1

\* C36: an execute, status or cancel request of an installation other than
\* the one that created the batch is denied, a request for an unknown batch
\* is answered not found, and neither changes a batch record or the queue:
\* no step is an execute or a cancel by another installation, and a step
\* that answers 403 or 404 leaves the sessions and the queue as they were.
C36_ForeignRequestsDenied ==
    /\ [][\A s \in SessionIds, inst \in Requesters :
            inst # sessions[s].installationId =>
                ~Execute(s, inst) /\ ~Cancel(s, inst)]_vars
    /\ [][refusal' # refusal =>
            /\ UNCHANGED <<sessions, cleaned, cancels, calls, queueVars, timers>>
            /\ refusal'.status = 404 <=> refusal'.sessionId \notin SessionIds
            /\ refusal'.status = 403 <=>
                    /\ refusal'.sessionId \in SessionIds
                    /\ sessions[refusal'.sessionId].installationId # refusal'.inst]_vars

\* installation 2 was denied the cancel of a batch of installation 1 that is
\* uploading, and the batch is still uploading
C36_Witness ==
    /\ refusal.status = 403
    /\ refusal.route = "cancel"
    /\ refusal.sessionId \in SessionIds
    /\ sessions[refusal.sessionId].installationId # refusal.inst
    /\ sessions[refusal.sessionId].status = "uploading"
    /\ \E j \in JobIds : jobs[j].sessionId = refusal.sessionId /\ jobs[j].st = "put"

\* C37: a verification succeeds only when the state it supplied is one that
\* /start issued to the same session and no verification has used up; one
\* made before any /start, or repeated after a success, is rejected.
C37_VerifyNeedsIssuedState ==
    \A v \in 1..Len(verifies) :
        verifies[v].status = 200 => verifies[v].state \in verifies[v].outstanding

=============================================================================
